---- MODULE Spec2Model ----
(***************************************************************************)
(* Geometry and curve-evaluation core of the plotting surface: Vec2, Rect, *)
(* Matrix.viewportTransformation, the interpolator family and the          *)
(* arc-length lookup table of the Bezier scratch utility.                  *)
(*                                                                         *)
(* Numbers.  A JavaScript number is modelled as a rational                 *)
(* [n |-> numerator, d |-> denominator] in lowest terms with d > 0.  The   *)
(* three non-finite values keep d = 0: 1/0 is Infinity, -1/0 is -Infinity  *)
(* and 0/0 is NaN.  The sign of zero is not modelled.  A run computes in   *)
(* one of two arithmetics, fixed by the variable arith:                    *)
(*   "exact"   +, -, * and / return the exact rational: the real-number    *)
(*             reading under which equalities of the specification are     *)
(*             meant ("within floating tolerance");                        *)
(*   "rounded" +, -, * and / return the exact result rounded to the        *)
(*             nearest binary floating-point number, ties to even, as      *)
(*             IEEE 754 does, with a significand of MantissaBits bits      *)
(*             where a double has 53; % and Math.floor are exact in both.  *)
(***************************************************************************)
EXTENDS Integers, Sequences, FiniteSets, TLC

VARIABLES
    pc,      \* position of the caller: "call", "built", "replaced", "done"
    op,      \* the function under evaluation
    args,    \* its arguments (a record)
    ret,     \* the value it returned (None before it returns)
    table,   \* the array held by the caller: the arc-length lookup table,
             \* the array of control points passed to an interpolator
    locals,  \* variables of the function called: the locals of a search when
             \* it returned, the variables a returned closure has captured
    arith    \* the arithmetic of the run: "exact" or "rounded"

vars == <<pc, op, args, ret, table, locals, arith>>

None == [none |-> TRUE]

\* ---------------------------------------------------------------- bounds
\* rectangle origins have coordinates 0..MaxOrigin, sizes -1..MaxSize
MaxOrigin == 1
MaxSize == 2
\* 2D control points lie on the integer grid with x + y <= MaxPt
MaxPt == 1
\* a segment chain has 0..MaxChain control points
MaxChain == 4
\* parameters t are the fractions k/d with d <= MaxTDen
MaxTDen == 3
\* width of the significand under rounded arithmetic.  A double has 53
\* bits; the width is narrowed so that products of significands stay within
\* machine integers.  1/3 rounds down at every odd width, 53 included.
MantissaBits == 5
\* 3D control points lie on the coordinate axes, at most MaxAxis from 0
MaxAxis == 1
\* a Bezier curve has 0..MaxCtl control points
MaxCtl == 3
\* an arc-length table is built in 1..MaxSteps steps
MaxSteps == 3
\* a 2D curve is measured over 1..MaxSegments chords
MaxSegments == 2
\* vectors of the Vec2 operations have integer components in -1..MaxVec
MaxVec == 1
\* matrices have 1..MaxDim rows and 1..MaxDim columns
MaxDim == 2
\* each edge of a rect is inset by -1..MaxInset
MaxInset == 2
\* a canvas is 0..MaxCanvas wide and high
MaxCanvas == 2

\* elements a GraphingCanvas creates in one run
MaxElements == 4

\* ------------------------------------------------------------ JS numbers
Abs(i) == IF i < 0 THEN -i ELSE i

Sign(i) == IF i < 0 THEN -1 ELSE IF i > 0 THEN 1 ELSE 0

RECURSIVE Gcd(_, _)
Gcd(a, b) == IF b = 0 THEN a ELSE Gcd(b, a % b)

\* the number n/d; d = 0 gives Infinity, -Infinity or NaN by the sign of n
Num(n, d) ==
    IF d = 0 THEN [n |-> Sign(n), d |-> 0]
    ELSE LET g == Gcd(Abs(n), Abs(d))
             s == IF d < 0 THEN -1 ELSE 1
         IN  [n |-> s * (n \div g), d |-> s * (d \div g)]

Z(i) == [n |-> i, d |-> 1]

NaN == [n |-> 0, d |-> 0]

IsNaN(a) == a.d = 0 /\ a.n = 0

IsFinite(a) == a.d # 0

RECURSIVE Pow2(_)
Pow2(k) == IF k = 0 THEN 1 ELSE 2 * Pow2(k - 1)

\* <<m, e>> with a/d = m * 2^e and 2^(MantissaBits-1) <= m < 2^MantissaBits,
\* m not yet rounded: returned as <<a', d', e>> with m = a'/d'
RECURSIVE Normalise(_, _, _)
Normalise(a, d, e) ==
    IF a < Pow2(MantissaBits - 1) * d THEN Normalise(2 * a, d, e - 1)
    ELSE IF a >= Pow2(MantissaBits) * d THEN Normalise(a, 2 * d, e + 1)
    ELSE <<a, d, e>>

\* the floating-point number nearest to q, ties to the even significand
RoundToNearest(q) ==
    IF q.d = 0 \/ q.n = 0 THEN q
    ELSE LET w == Normalise(Abs(q.n), q.d, 0)
             m == w[1] \div w[2]
             r == w[1] % w[2]
             up == 2 * r > w[2] \/ (2 * r = w[2] /\ m % 2 = 1)
             mm == IF up THEN m + 1 ELSE m
         IN  IF w[3] >= 0 THEN Num(Sign(q.n) * mm * Pow2(w[3]), 1)
             ELSE Num(Sign(q.n) * mm, Pow2(-w[3]))

\* the result of an arithmetic operation whose exact value is q
Fl(q) == IF arith = "rounded" THEN RoundToNearest(q) ELSE q

\* Math.sqrt(q), correctly rounded in both arithmetics (its exact value is
\* irrational in general): the significand m nearest to sqrt(q) / 2^e.
\* SqrtNormalise returns <<a', d', e>> with q / 4^e = a'/d' in
\* [4^(MantissaBits-1), 4^MantissaBits)
RECURSIVE SqrtNormalise(_, _, _)
SqrtNormalise(a, d, e) ==
    IF a < Pow2(2 * MantissaBits - 2) * d THEN SqrtNormalise(4 * a, d, e - 1)
    ELSE IF a >= Pow2(2 * MantissaBits) * d THEN SqrtNormalise(a, 4 * d, e + 1)
    ELSE <<a, d, e>>

RSqrt(q) ==
    IF IsNaN(q) \/ q.n < 0 THEN NaN
    ELSE IF q.d = 0 \/ q.n = 0 THEN q
    ELSE LET w == SqrtNormalise(q.n, q.d, 0)
             m == CHOOSE k \in Pow2(MantissaBits - 1)..(Pow2(MantissaBits) - 1) :
                      /\ k * k * w[2] <= w[1]
                      /\ (k + 1) * (k + 1) * w[2] > w[1]
             half == (2 * m + 1) * (2 * m + 1) * w[2]
             up == 4 * w[1] > half \/ (4 * w[1] = half /\ m % 2 = 1)
             mm == IF up THEN m + 1 ELSE m
         IN  IF w[3] >= 0 THEN Num(mm * Pow2(w[3]), 1)
             ELSE Num(mm, Pow2(-w[3]))

\* a + b
RAdd(a, b) ==
    IF IsNaN(a) \/ IsNaN(b) THEN NaN
    ELSE IF a.d = 0 /\ b.d = 0 THEN (IF a.n = b.n THEN a ELSE NaN)
    ELSE IF a.d = 0 THEN a
    ELSE IF b.d = 0 THEN b
    ELSE Fl(Num(a.n * b.d + b.n * a.d, a.d * b.d))

\* -a
RNeg(a) == [n |-> -a.n, d |-> a.d]

\* a - b
RSub(a, b) == RAdd(a, RNeg(b))

\* a * b
RMul(a, b) ==
    IF IsNaN(a) \/ IsNaN(b) THEN NaN
    ELSE IF a.d = 0 \/ b.d = 0 THEN Num(Sign(a.n) * Sign(b.n), 0)
    ELSE Fl(Num(a.n * b.n, a.d * b.d))

\* a / b
RDiv(a, b) ==
    IF IsNaN(a) \/ IsNaN(b) THEN NaN
    ELSE IF b.d = 0 THEN (IF a.d = 0 THEN NaN ELSE Z(0))
    ELSE IF a.d = 0 THEN Num(a.n * (IF b.n < 0 THEN -1 ELSE 1), 0)
    ELSE Fl(Num(a.n * b.d, a.d * b.n))

\* Math.pow(base, k) for an integer k >= 0
RECURSIVE RPow(_, _)
RPow(base, k) == IF k = 0 THEN Z(1) ELSE RMul(base, RPow(base, k - 1))

\* a < b; every comparison with NaN is false
RLt(a, b) ==
    IF IsNaN(a) \/ IsNaN(b) THEN FALSE
    ELSE IF a.d = 0 /\ b.d = 0 THEN a.n < b.n
    ELSE IF a.d = 0 THEN a.n < 0
    ELSE IF b.d = 0 THEN b.n > 0
    ELSE a.n * b.d < b.n * a.d

\* Math.floor(a)
RFloor(a) == IF a.d = 0 THEN a ELSE Z(a.n \div a.d)

\* a truncated toward zero
RTrunc(a) == IF a.d = 0 THEN a ELSE Z(Sign(a.n) * (Abs(a.n) \div a.d))

\* a <= b
RLe(a, b) == ~IsNaN(a) /\ ~IsNaN(b) /\ ~RLt(b, a)

\* a === b
REq(a, b) == ~IsNaN(a) /\ ~IsNaN(b) /\ a = b

\* a % b: the remainder takes the sign of the dividend
RMod(a, b) ==
    IF a.d = 0 \/ IsNaN(b) \/ REq(b, Z(0)) THEN NaN
    ELSE IF b.d = 0 THEN a
    ELSE LET q == RTrunc(Num(a.n * b.d, a.d * b.n)).n
         IN  Num(a.n * b.d - q * b.n * a.d, a.d * b.d)

\* table[i], counted from 0, read as a number: undefined outside the table
\* turns into NaN in arithmetic and makes every comparison false
TableAt(tbl, i) == IF i \in 0..(Len(tbl) - 1) THEN tbl[i + 1] ELSE NaN

\* ------------------------------------------------------------------ Vec2
Vec2(x, y) == [x |-> x, y |-> y]

Vec2zero == Vec2(Z(0), Z(0))

Vec2one == Vec2(Z(1), Z(1))

components(v) == <<v.x, v.y>>

add(v, other) == Vec2(RAdd(v.x, other.x), RAdd(v.y, other.y))

sub(v, other) == Vec2(RSub(v.x, other.x), RSub(v.y, other.y))

componentMul(v, other) == Vec2(RMul(v.x, other.x), RMul(v.y, other.y))

\* the quotient taken without the test for a zero divisor
componentDiv_unguarded(v, other) ==
    Vec2(RDiv(v.x, other.x), RDiv(v.y, other.y))

componentDiv(v, other) ==
    Vec2(IF REq(other.x, Z(0)) THEN Z(0) ELSE RDiv(v.x, other.x),
         IF REq(other.y, Z(0)) THEN Z(0) ELSE RDiv(v.y, other.y))

scale(v, scalar) == Vec2(RMul(v.x, scalar), RMul(v.y, scalar))

\* the amount clamped to [0,1]
lerp_clamped(v, to, amount) ==
    LET t == IF RLt(amount, Z(0)) THEN Z(0)
             ELSE IF RLt(Z(1), amount) THEN Z(1) ELSE amount
    IN  add(v, scale(sub(to, v), t))

lerp(v, to, amount) == add(v, scale(sub(to, v), amount))

\* terms is a sequence of <<coefficient, vector>> pairs, folded from the left
RECURSIVE linearCombinationFrom(_, _, _)
linearCombinationFrom(terms, i, result) ==
    IF i > Len(terms) THEN result
    ELSE linearCombinationFrom(terms, i + 1,
                               add(result, scale(terms[i][2], terms[i][1])))

linearCombination(terms) == linearCombinationFrom(terms, 1, Vec2zero)

\* ------------------------------------------------------------------ Rect
Rect(origin, size) == [origin |-> origin, size |-> size]

convertNormalizedCoordinate(r, p) == add(r.origin, componentMul(r.size, p))

farCorner(r) == convertNormalizedCoordinate(r, Vec2one)

\* ---------------------------------------------------------------- Matrix
\* data is column-major: a sequence of columns, each a sequence of numbers;
\* rows and columns are counted from 0 as in the source
MatrixSize(m) ==
    [rows |-> IF Len(m) = 0 THEN 0 ELSE Len(m[1]), columns |-> Len(m)]

atColumnRow(m, column, row) == m[column + 1][row + 1]

rowAtIndex(m, row) == [c \in 1..Len(m) |-> atColumnRow(m, c - 1, row)]

RECURSIVE VecNDotFrom(_, _, _, _)
VecNDotFrom(a, b, i, accum) ==
    IF i > Len(a) THEN accum
    ELSE VecNDotFrom(a, b, i + 1, RAdd(accum, RMul(a[i], TableAt(b, i - 1))))

VecNDot(a, b) == VecNDotFrom(a, b, 1, Z(0))

mulVecN(m, vec) ==
    [r \in 1..MatrixSize(m).rows |-> VecNDot(rowAtIndex(m, r - 1), vec)]

mulVec2(m, v) ==
    LET comps == IF MatrixSize(m).rows = 2 THEN components(v)
                 ELSE components(v) \o <<Z(1)>>
        res == mulVecN(m, comps)
    IN  Vec2(res[1], res[2])

\* the translation computed from the unscaled source origin
viewportTransformation_unscaledTranslate(source, dest) ==
    LET sourceLL == source.origin
        sourceUR == farCorner(source)
        destLL == dest.origin
        destUR == farCorner(dest)
        scl == componentDiv(sub(destUR, destLL), sub(sourceUR, sourceLL))
        translate == sub(destLL, sourceLL)
    IN  << <<scl.x, Z(0), Z(0)>>,
           <<Z(0), scl.y, Z(0)>>,
           <<translate.x, translate.y, Z(0)>> >>

viewportTransformation(source, dest) ==
    LET sourceLL == source.origin
        sourceUR == farCorner(source)
        destLL == dest.origin
        destUR == farCorner(dest)
        scl == componentDiv(sub(destUR, destLL), sub(sourceUR, sourceLL))
        translate == sub(destLL, componentMul(scl, sourceLL))
    IN  << <<scl.x, Z(0), Z(0)>>,
           <<Z(0), scl.y, Z(0)>>,
           <<translate.x, translate.y, Z(0)>> >>

\* ------------------------------------------------- viewport specification
\* rectangles a caller can pass: integer origin and integer (possibly
\* negative or zero) size
Origins == {Vec2(Z(x), Z(y)) : x \in 0..MaxOrigin, y \in 0..MaxOrigin}

Sizes == {Vec2(Z(w), Z(h)) : w \in -1..MaxSize, h \in -1..MaxSize}

Rects == {Rect(o, s) : o \in Origins, s \in Sizes}

IsDegenerate(r) == r.size.x = Z(0) \/ r.size.y = Z(0)

InitViewport ==
    /\ pc = "call"
    /\ op = "viewportTransformation"
    /\ args \in [source : Rects, dest : Rects]
    /\ ret = None
    /\ table = <<>>
    /\ locals = None
    /\ arith = "exact"

\* renderInViewport's call of Matrix.viewportTransformation(viewport, canvasRect)
CallViewportTransformation ==
    /\ pc = "call"
    /\ op = "viewportTransformation"
    /\ ret' = viewportTransformation(args.source, args.dest)
    /\ pc' = "done"
    /\ UNCHANGED <<op, args, table, locals, arith>>

NextViewport == CallViewportTransformation

SpecViewport == InitViewport /\ [][NextViewport]_vars

\* ----------------------------------------------------------- Interpolator
\* a JavaScript exception leaving the function
TypeError == [error |-> "TypeError"]

\* array[i], counted from 0; undefined outside the array
Undefined == [undefined |-> TRUE]

At(array, i) ==
    IF i \in 0..(Len(array) - 1) THEN array[i + 1] ELSE Undefined

LineSegmentInterpolator(pts, t) ==
    LET a == pts[1]
        b == pts[2]
    IN  IF a = Undefined \/ b = Undefined THEN TypeError ELSE lerp(a, b, t)

\* the remainder left unscaled by the segment width
remapParameterToSubRange_unscaledSubT(parameter, count) ==
    IF RLe(parameter, Z(0)) THEN [parameter |-> Z(0), index |-> 0]
    ELSE IF RLe(Z(1), parameter) THEN [parameter |-> Z(1), index |-> count - 1]
    ELSE LET segmentWidth == RDiv(Z(1), Z(count))
             subT == RMod(parameter, segmentWidth)
             segmentIndex == RFloor(RDiv(parameter, segmentWidth))
         IN  [parameter |-> subT, index |-> segmentIndex.n]

remapParameterToSubRange(parameter, count) ==
    IF RLe(parameter, Z(0)) THEN [parameter |-> Z(0), index |-> 0]
    ELSE IF RLe(Z(1), parameter) THEN [parameter |-> Z(1), index |-> count - 1]
    ELSE LET segmentWidth == RDiv(Z(1), Z(count))
             subT == RDiv(RMod(parameter, segmentWidth), segmentWidth)
             segmentIndex == RFloor(RDiv(parameter, segmentWidth))
         IN  [parameter |-> subT, index |-> segmentIndex.n]

LineSegmentsInterpolator(pts, t) ==
    LET numSegments == Len(pts) - 1
    IN  IF numSegments < 1
        THEN (IF Len(pts) = 0 THEN Vec2zero ELSE pts[1])
        ELSE LET r == remapParameterToSubRange(t, numSegments)
             IN  LineSegmentInterpolator(
                     <<At(pts, r.index), At(pts, r.index + 1)>>, r.parameter)

\* the linear coefficient with the sign of c flipped
QuadraticInterpolator_signOfC(pts, t) ==
    LET a == pts[1]
        b == pts[2]
        c == pts[3]
    IN  linearCombination(<<
            <<RMul(t, t),
              linearCombination(<< <<Z(2), a>>, <<Z(-4), b>>, <<Z(2), c>> >>)>>,
            <<t,
              linearCombination(<< <<Z(-3), a>>, <<Z(4), b>>, <<Z(1), c>> >>)>>,
            <<Z(1), a>> >>)

QuadraticInterpolator(pts, t) ==
    LET a == pts[1]
        b == pts[2]
        c == pts[3]
    IN  linearCombination(<<
            <<RMul(t, t),
              linearCombination(<< <<Z(2), a>>, <<Z(-4), b>>, <<Z(2), c>> >>)>>,
            <<t,
              linearCombination(<< <<Z(-3), a>>, <<Z(4), b>>, <<Z(-1), c>> >>)>>,
            <<Z(1), a>> >>)

CubicInterpolator(pts, t) == pts[1]

HermiteInterpolator(pts, t) == pts[1]

\* --------------------------------------------- interpolator specification
\* control points on the integer grid with x + y <= MaxPt
Points ==
    {p \in {Vec2(Z(x), Z(y)) : x \in 0..MaxPt, y \in 0..MaxPt} :
        p.x.n + p.y.n <= MaxPt}

\* the sequences over S of exactly n elements
SeqsOfLen(S, n) == [1..n -> S]

\* parameters k/d around and inside [0,1]
TVals == {Num(k, d) : k \in -1..(MaxTDen + 1), d \in 1..MaxTDen}

InitInterp ==
    /\ pc = "call"
    /\ \/ /\ op = "LineSegmentsInterpolator"
          /\ \E n \in 0..MaxChain :
                 args \in [pts : SeqsOfLen(Points, n), t : TVals]
       \/ /\ op = "QuadraticInterpolator"
          /\ args \in [pts : SeqsOfLen(Points, 3), t : TVals]
       \/ /\ op \in {"CubicInterpolator", "HermiteInterpolator"}
          /\ args \in [pts : SeqsOfLen(Points, 4), t : TVals]
    /\ ret = None
    /\ table = <<>>
    /\ locals = None
    /\ arith = "exact"

\* the renderer's eqn(t) on LineSegmentsInterpolator(pts)
CallLineSegmentsInterpolator ==
    /\ pc = "call"
    /\ op = "LineSegmentsInterpolator"
    /\ ret' = LineSegmentsInterpolator(args.pts, args.t)
    /\ pc' = "done"
    /\ UNCHANGED <<op, args, table, locals, arith>>

CallQuadraticInterpolator ==
    /\ pc = "call"
    /\ op = "QuadraticInterpolator"
    /\ ret' = QuadraticInterpolator(args.pts, args.t)
    /\ pc' = "done"
    /\ UNCHANGED <<op, args, table, locals, arith>>

CallCubicInterpolator ==
    /\ pc = "call"
    /\ op = "CubicInterpolator"
    /\ ret' = CubicInterpolator(args.pts, args.t)
    /\ pc' = "done"
    /\ UNCHANGED <<op, args, table, locals, arith>>

CallHermiteInterpolator ==
    /\ pc = "call"
    /\ op = "HermiteInterpolator"
    /\ ret' = HermiteInterpolator(args.pts, args.t)
    /\ pc' = "done"
    /\ UNCHANGED <<op, args, table, locals, arith>>

NextInterp ==
    \/ CallLineSegmentsInterpolator
    \/ CallQuadraticInterpolator
    \/ CallCubicInterpolator
    \/ CallHermiteInterpolator

SpecInterp == InitInterp /\ [][NextInterp]_vars

\* ------------------------- the segment chain under rounded arithmetic
\* the floating-point numbers of [-1, 2] on the grid of 2^-MantissaBits:
\* every number of the format in [1/2, 1] and the coarser part below
FloatTs ==
    {q \in {Num(k, Pow2(MantissaBits)) :
                k \in (-Pow2(MantissaBits))..(2 * Pow2(MantissaBits))} :
        RoundToNearest(q) = q}

InitInterpRounded ==
    /\ pc = "call"
    /\ op = "LineSegmentsInterpolator"
    /\ \E n \in 0..MaxChain :
           args \in [pts : SeqsOfLen(Points, n), t : FloatTs]
    /\ ret = None
    /\ table = <<>>
    /\ locals = None
    /\ arith = "rounded"

NextInterpRounded == CallLineSegmentsInterpolator

SpecInterpRounded == InitInterpRounded /\ [][NextInterpRounded]_vars

\* ------------------------------------------------- Bezier arc-length table
Point3D(x, y, z) == [x |-> x, y |-> y, z |-> z]

RECURSIVE factorial(_)
factorial(n) == IF n <= 1 THEN 1 ELSE n * factorial(n - 1)

binomialCoefficient(n, k) ==
    RDiv(Z(factorial(n)), RMul(Z(factorial(k)), Z(factorial(n - k))))

\* the loop of evaluateBezier from index i on, acc the running x, y, z
RECURSIVE evaluateBezierFrom(_, _, _, _)
evaluateBezierFrom(points, t, i, acc) ==
    LET n == Len(points) - 1 IN
    IF i > n THEN acc
    ELSE LET coef == RMul(RMul(binomialCoefficient(n, i),
                               RPow(RSub(Z(1), t), n - i)),
                          RPow(t, i))
             p == points[i + 1]
         IN  evaluateBezierFrom(points, t, i + 1,
                 Point3D(RAdd(acc.x, RMul(coef, p.x)),
                         RAdd(acc.y, RMul(coef, p.y)),
                         RAdd(acc.z, RMul(coef, p.z))))

evaluateBezier(points, t) ==
    evaluateBezierFrom(points, t, 0, Point3D(Z(0), Z(0), Z(0)))

\* the chord from prevPoint to currentPoint
chordLength(currentPoint, prevPoint) ==
    RSqrt(RAdd(RAdd(RPow(RSub(currentPoint.x, prevPoint.x), 2),
                    RPow(RSub(currentPoint.y, prevPoint.y), 2)),
               RPow(RSub(currentPoint.z, prevPoint.z), 2)))

\* the loop of buildArcLengthTable from step i on; tbl holds table[0..i-1]
RECURSIVE buildArcLengthTableFrom(_, _, _, _, _, _)
buildArcLengthTableFrom(points, steps, i, length, prevPoint, tbl) ==
    IF i > steps THEN tbl
    ELSE LET t == RDiv(Z(i), Z(steps))
             currentPoint == evaluateBezier(points, t)
             len == RAdd(length, chordLength(currentPoint, prevPoint))
         IN  buildArcLengthTableFrom(points, steps, i + 1, len, currentPoint,
                                     Append(tbl, len))

\* the chord stored instead of the running length
buildArcLengthTable_chordOnly(points, steps) ==
    [i \in 1..(steps + 1) |->
        IF i = 1 THEN Z(0)
        ELSE chordLength(evaluateBezier(points, RDiv(Z(i - 1), Z(steps))),
                         evaluateBezier(points, RDiv(Z(i - 2), Z(steps))))]

buildArcLengthTable(points, steps) ==
    buildArcLengthTableFrom(points, steps, 1, Z(0),
                            evaluateBezier(points, Z(0)), <<Z(0)>>)

\* the while loop of findTForArcLength; returns the locals at its exit
RECURSIVE binarySearch(_, _, _, _, _)
binarySearch(tbl, arcLength, low, high, index) ==
    IF low < high
    THEN LET mid == (low + high) \div 2
         IN  IF RLt(TableAt(tbl, mid), arcLength)
             THEN binarySearch(tbl, arcLength, mid + 1, high, mid)
             ELSE binarySearch(tbl, arcLength, low, mid, mid)
    ELSE [low |-> low, high |-> high, index |-> index]

\* the locals of findTForArcLength when it returns (None on an early return)
findTForArcLengthLocals(tbl, arcLength) ==
    LET lastIndex == Len(tbl) - 1 IN
    IF RLe(arcLength, Z(0)) THEN None
    ELSE IF RLe(TableAt(tbl, lastIndex), arcLength) THEN None
    ELSE binarySearch(tbl, arcLength, 0, lastIndex, 0)

\* the first test strict: an arc length of exactly 0 is searched for
findTForArcLength_strictZero(tbl, arcLength) ==
    LET lastIndex == Len(tbl) - 1 IN
    IF RLt(arcLength, Z(0)) THEN Z(0)
    ELSE IF RLe(TableAt(tbl, lastIndex), arcLength) THEN Z(1)
    ELSE LET index == binarySearch(tbl, arcLength, 0, lastIndex, 0).index
             t0 == RDiv(Z(index - 1), Z(lastIndex))
             t1 == RDiv(Z(index), Z(lastIndex))
             arcLength0 == TableAt(tbl, index - 1)
             arcLength1 == TableAt(tbl, index)
         IN  RAdd(t0, RMul(RDiv(RSub(arcLength, arcLength0),
                                RSub(arcLength1, arcLength0)),
                           RSub(t1, t0)))

findTForArcLength(tbl, arcLength) ==
    LET lastIndex == Len(tbl) - 1 IN
    IF RLe(arcLength, Z(0)) THEN Z(0)
    ELSE IF RLe(TableAt(tbl, lastIndex), arcLength) THEN Z(1)
    ELSE LET index == binarySearch(tbl, arcLength, 0, lastIndex, 0).index
             t0 == RDiv(Z(index - 1), Z(lastIndex))
             t1 == RDiv(Z(index), Z(lastIndex))
             arcLength0 == TableAt(tbl, index - 1)
             arcLength1 == TableAt(tbl, index)
         IN  RAdd(t0, RMul(RDiv(RSub(arcLength, arcLength0),
                                RSub(arcLength1, arcLength0)),
                           RSub(t1, t0)))

\* ----------------------------------------------- arc-length specification
\* control points on the three coordinate axes, up to MaxAxis from the origin
Points3D ==
    {p \in {Point3D(Z(x), Z(y), Z(z)) :
                x \in 0..MaxAxis, y \in 0..MaxAxis, z \in 0..MaxAxis} :
        Cardinality({k \in {"x", "y", "z"} : p[k] # Z(0)}) <= 1}

\* the arc lengths asked for: below, at and above the ends of the table,
\* every table entry and the middle of every bracket
Queries(tbl) ==
    LET total == tbl[Len(tbl)] IN
    {Z(-1), Z(0), RAdd(total, Z(1))}
    \cup {tbl[i] : i \in 1..Len(tbl)}
    \cup {RDiv(RAdd(tbl[i], tbl[i + 1]), Z(2)) : i \in 1..(Len(tbl) - 1)}

InitArc ==
    /\ pc = "call"
    /\ op = "buildArcLengthTable"
    /\ \E n \in 0..MaxCtl :
           args \in [points : SeqsOfLen(Points3D, n), steps : 1..MaxSteps]
    /\ ret = None
    /\ table = <<>>
    /\ locals = None
    /\ arith = "exact"

\* const table = buildArcLengthTable(controlPoints, steps)
CallBuildArcLengthTable ==
    /\ pc = "call"
    /\ op = "buildArcLengthTable"
    /\ table' = buildArcLengthTable(args.points, args.steps)
    /\ pc' = "built"
    /\ UNCHANGED <<op, args, ret, locals, arith>>

\* findTForArcLength(table, arcLength)
CallFindTForArcLength ==
    /\ pc = "built"
    /\ \E arcLength \in Queries(table) :
           /\ args' = [points |-> args.points, steps |-> args.steps,
                       arcLength |-> arcLength]
           /\ ret' = findTForArcLength(table, arcLength)
           /\ locals' = findTForArcLengthLocals(table, arcLength)
    /\ op' = "findTForArcLength"
    /\ pc' = "done"
    /\ UNCHANGED <<table, arith>>

NextArc ==
    \/ CallBuildArcLengthTable
    \/ CallFindTForArcLength

SpecArc == InitArc /\ [][NextArc]_vars

\* ------------------------------------------------- claims on the viewport
Returned(name) == pc = "done" /\ op = name

\* the failure the specification asks for on a degenerate source rectangle
InvalidGeometry == [error |-> "InvalidGeometry"]

\* C1: for every source rect R with non-zero width and height and every
\* destination rect S, the matrix of viewportTransformation(R, S) applied
\* with mulVec2 maps R.origin to S.origin and R.farCorner to S.farCorner.
C1_ViewportMapsCorners ==
    (Returned("viewportTransformation") /\ ~IsDegenerate(args.source)) =>
        /\ mulVec2(ret, args.source.origin) = args.dest.origin
        /\ mulVec2(ret, farCorner(args.source)) = farCorner(args.dest)

\* a source of size (2,-1) away from the origin onto a destination of
\* size (-1,2): both scales are fractional or negative and the translation
\* is not zero
C1_Witness ==
    /\ Returned("viewportTransformation")
    /\ args.source = Rect(Vec2(Z(1), Z(1)), Vec2(Z(2), Z(-1)))
    /\ args.dest = Rect(Vec2(Z(0), Z(1)), Vec2(Z(-1), Z(2)))
    /\ atColumnRow(ret, 0, 0) = Num(-1, 2)
    /\ mulVec2(ret, farCorner(args.source)) = Vec2(Z(-1), Z(3))

\* C2: when the source rect has zero width or zero height the viewport
\* transform fails with InvalidGeometry for every destination rect and
\* never returns a matrix.
C2_DegenerateSourceFails ==
    (Returned("viewportTransformation") /\ IsDegenerate(args.source)) =>
        ret = InvalidGeometry

C4_CubicThroughPoints ==
    Returned("CubicInterpolator") =>
        /\ args.t = Z(0) => ret = args.pts[1]
        /\ args.t = Num(1, 3) => ret = args.pts[2]
        /\ args.t = Num(2, 3) => ret = args.pts[3]
        /\ args.t = Z(1) => ret = args.pts[4]

\* C5: the function HermiteInterpolator([a, b, c, d]) returns satisfies
\* f(0) = a and f(1) = d.
C5_HermiteEndpoints ==
    Returned("HermiteInterpolator") =>
        /\ args.t = Z(0) => ret = args.pts[1]
        /\ args.t = Z(1) => ret = args.pts[4]

Min(a, b) == IF RLe(a, b) THEN a ELSE b

Max(a, b) == IF RLe(a, b) THEN b ELSE a

\* p is a point of the closed segment from a to b.  Under exact arithmetic:
\* inside the segment's bounding box and collinear with a and b.  Under
\* rounded arithmetic a computed point is off the line by its rounding
\* error, so only the bounding box is required of it.
OnSegment(p, a, b) ==
    /\ p # TypeError
    /\ RLe(Min(a.x, b.x), p.x) /\ RLe(p.x, Max(a.x, b.x))
    /\ RLe(Min(a.y, b.y), p.y) /\ RLe(p.y, Max(a.y, b.y))
    /\ arith = "exact" =>
           LET ab == sub(b, a)
               ap == sub(p, a)
           IN  RMul(ap.x, ab.y) = RMul(ap.y, ab.x)

\* C6: for a chain of N >= 2 control points LineSegmentsInterpolator returns
\* the first point for every t <= 0, the last point for every t >= 1, and
\* for 0 < t < 1 a point on one of the N-1 segments between consecutive
\* control points.
C6_ChainStaysOnPolygon ==
    (Returned("LineSegmentsInterpolator") /\ Len(args.pts) >= 2) =>
        LET n == Len(args.pts) IN
        /\ RLe(args.t, Z(0)) => ret = args.pts[1]
        /\ RLe(Z(1), args.t) => ret = args.pts[n]
        /\ (RLt(Z(0), args.t) /\ RLt(args.t, Z(1))) =>
               \E i \in 1..(n - 1) : OnSegment(ret, args.pts[i], args.pts[i + 1])

\* C7 (as claimed): for a chain of 4 control points the value at t = 1/2 is
\* exactly a middle control point of the chain (the second or the third).
C7_MiddleControlPoint ==
    (Returned("LineSegmentsInterpolator") /\ Len(args.pts) = 4
        /\ args.t = Num(1, 2)) =>
        ret \in {args.pts[2], args.pts[3]}

\* C7 (amended): for a chain of 4 control points the value at t = 1/2 is
\* the midpoint of the middle segment, halfway between the second and the
\* third control point.
C7_MiddleOfMiddleSegment ==
    (Returned("LineSegmentsInterpolator") /\ Len(args.pts) = 4
        /\ args.t = Num(1, 2)) =>
        ret = scale(add(args.pts[2], args.pts[3]), Num(1, 2))

\* four points whose second and third differ, evaluated at 1/2
C7_Witness ==
    /\ Returned("LineSegmentsInterpolator")
    /\ args.pts = <<Vec2(Z(0), Z(0)), Vec2(Z(1), Z(0)),
                    Vec2(Z(0), Z(1)), Vec2(Z(0), Z(0))>>
    /\ args.t = Num(1, 2)
    /\ ret = Vec2(Num(1, 2), Num(1, 2))

\* --------------------------------------- claims on the arc-length table
\* the table is an array of numbers, none of them NaN or infinite
TableTotal == table[Len(table)]

\* C8: for 0 < s < totalLength the index i that findTForArcLength uses for
\* interpolation satisfies i >= 1 and table[i-1] <= s <= table[i], and the
\* returned t lies in [(i-1)/N, i/N]; table[-1] is never read and NaN is
\* never returned.
C8_BracketingIndex ==
    (Returned("findTForArcLength") /\ RLt(Z(0), args.arcLength)
        /\ RLt(args.arcLength, TableTotal)) =>
        LET i == locals.index
            lastIndex == Len(table) - 1
        IN  /\ i >= 1
            /\ RLe(TableAt(table, i - 1), args.arcLength)
            /\ RLe(args.arcLength, TableAt(table, i))
            /\ ~IsNaN(ret)
            /\ RLe(RDiv(Z(i - 1), Z(lastIndex)), ret)
            /\ RLe(ret, RDiv(Z(i), Z(lastIndex)))

\* C9 (as claimed): findTForArcLength returns 0 for every s <= 0 and 1 for
\* every s >= table[last]; an out-of-range query is clamped, never an error.
C9_ClampedAtBothEnds ==
    Returned("findTForArcLength") =>
        /\ RLe(args.arcLength, Z(0)) => ret = Z(0)
        /\ RLe(TableTotal, args.arcLength) => ret = Z(1)
        /\ ret \notin {TypeError, None}

\* C9 (amended): findTForArcLength returns 0 for every s <= 0 and 1 for
\* every s > 0 with s >= table[last]; an out-of-range query is clamped,
\* never an error.
C9_ClampedZeroFirst ==
    Returned("findTForArcLength") =>
        /\ RLe(args.arcLength, Z(0)) => ret = Z(0)
        /\ (RLt(Z(0), args.arcLength) /\ RLe(TableTotal, args.arcLength)) =>
               ret = Z(1)
        /\ ret \notin {TypeError, None}

\* the whole length of a curve of positive length asked for: t = 1
C9_Witness ==
    /\ Returned("findTForArcLength")
    /\ RLt(Z(0), TableTotal)
    /\ args.arcLength = TableTotal
    /\ Len(table) = 4
    /\ ret = Z(1)

\* C10: for every control-point list and every steps >= 1 the table of
\* buildArcLengthTable has steps+1 entries, table[0] = 0 and
\* table[i] <= table[i+1] for all i.
C10_TableMonotone ==
    (pc = "built" /\ args.steps >= 1) =>
        /\ Len(table) = args.steps + 1
        /\ table[1] = Z(0)
        /\ \A i \in 1..(Len(table) - 1) : RLe(table[i], table[i + 1])

\* a quadratic curve sampled in 3 steps whose chords differ, so the table
\* rises by unequal amounts
C10_Witness ==
    /\ pc = "built"
    /\ args.steps = 3
    /\ Len(args.points) = 3
    /\ RLt(table[1], table[2]) /\ RLt(table[2], table[3]) /\ RLt(table[3], table[4])
    /\ RSub(table[2], table[1]) # RSub(table[3], table[2])

\* ------------------------------- 2D Bezier arc-length reparametrisation
BezierCurve(p0, p1, p2, p3) == [p0 |-> p0, p1 |-> p1, p2 |-> p2, p3 |-> p3]

segmentLength(p1, p2) ==
    LET dx == RSub(p2.x, p1.x)
        dy == RSub(p2.y, p1.y)
    IN  RSqrt(RAdd(RMul(dx, dx), RMul(dy, dy)))

\* one coordinate of computePointOnCurve, s = 1 - t, products and sums
\* associated to the left as the expression is evaluated
bezierCoordinate(s, t, c0, c1, c2, c3) ==
    RAdd(RAdd(RAdd(RMul(RMul(RMul(s, s), s), c0),
                   RMul(RMul(RMul(RMul(Z(3), s), s), t), c1)),
              RMul(RMul(RMul(RMul(Z(3), s), t), t), c2)),
         RMul(RMul(RMul(t, t), t), c3))

computePointOnCurve(curve, t) ==
    LET s == RSub(Z(1), t)
    IN  Vec2(bezierCoordinate(s, t, curve.p0.x, curve.p1.x, curve.p2.x, curve.p3.x),
             bezierCoordinate(s, t, curve.p0.y, curve.p1.y, curve.p2.y, curve.p3.y))

\* the loop of curveLength from segment i on
RECURSIVE curveLengthFrom(_, _, _, _, _, _)
curveLengthFrom(curve, numSegments, i, length, t, p1) ==
    IF i > numSegments THEN length
    ELSE LET dt == RDiv(Z(1), Z(numSegments))
             p2 == computePointOnCurve(curve, RAdd(t, dt))
         IN  curveLengthFrom(curve, numSegments, i + 1,
                             RAdd(length, segmentLength(p1, p2)),
                             RAdd(t, dt), p2)

curveLength(curve, numSegments) ==
    curveLengthFrom(curve, numSegments, 1, Z(0), Z(0), curve.p0)

\* the first loop of reparametrizeCurveByArcLength from segment i on: the
\* array st of cumulative lengths
RECURSIVE cumulativeLengthsFrom(_, _, _, _, _, _, _)
cumulativeLengthsFrom(curve, numSegments, i, s, t, p1, st) ==
    IF i > numSegments THEN st
    ELSE LET dt == RDiv(Z(1), Z(numSegments))
             p2 == computePointOnCurve(curve, RAdd(t, dt))
             len == RAdd(s, segmentLength(p1, p2))
         IN  cumulativeLengthsFrom(curve, numSegments, i + 1, len,
                                   RAdd(t, dt), p2, Append(st, len))

cumulativeLengths(curve, numSegments) ==
    cumulativeLengthsFrom(curve, numSegments, 1, Z(0), Z(0), curve.p0, <<Z(0)>>)

inverseLerp(value, a, b) == RDiv(RSub(value, a), RSub(b, a))

\* lerp of two numbers
numberLerp(a, b, t) == RAdd(RMul(RSub(Z(1), t), a), RMul(t, b))

\* the second loop of reparametrizeCurveByArcLength: the array ts
inverseParameters(st, numSegments, curveLen) ==
    [i \in 1..(numSegments + 1) |->
        IF i = 1 THEN Z(0) ELSE inverseLerp(st[i], Z(0), curveLen)]

\* binarySearch(arr, value) of the reparametrisation, from low and high on
RECURSIVE arrayBinarySearch(_, _, _, _)
arrayBinarySearch(arr, value, low, high) ==
    IF low <= high
    THEN LET mid == (low + high) \div 2
         IN  IF RLt(TableAt(arr, mid), value)
             THEN arrayBinarySearch(arr, value, mid + 1, high)
             ELSE IF RLt(value, TableAt(arr, mid))
             THEN arrayBinarySearch(arr, value, low, mid - 1)
             ELSE mid
    ELSE low - 1

\* the function reparametrizeCurveByArcLength returns, over the arrays st
\* and ts it has captured; an element read outside an array is undefined
\* and turns into NaN in the arithmetic
reparametrized(st, ts, s) ==
    LET idx == arrayBinarySearch(st, s, 0, Len(st) - 1)
        t1 == TableAt(ts, idx)
        t2 == TableAt(ts, idx + 1)
        segmentLen == RSub(TableAt(st, idx + 1), TableAt(st, idx))
        u == RDiv(RSub(s, TableAt(st, idx)), segmentLen)
    IN  numberLerp(t1, t2, u)

\* ------------------------------------- reparametrisation specification
Curves == {BezierCurve(c[1], c[2], c[3], c[4]) : c \in SeqsOfLen(Points, 4)}

InitReparam ==
    /\ pc = "call"
    /\ op = "reparametrizeCurveByArcLength"
    /\ args \in [curve : Curves, numSegments : 1..MaxSegments]
    /\ ret = None
    /\ table = <<>>
    /\ locals = None
    /\ arith = "exact"

\* reparametrizeCurveByArcLength(curve, numSegments): the returned function
\* captures st (kept in table) and ts
CallReparametrizeCurveByArcLength ==
    /\ pc = "call"
    /\ op = "reparametrizeCurveByArcLength"
    /\ LET st == cumulativeLengths(args.curve, args.numSegments)
       IN  /\ table' = st
           /\ locals' = [ts |-> inverseParameters(st, args.numSegments,
                                    curveLength(args.curve, args.numSegments))]
    /\ pc' = "built"
    /\ UNCHANGED <<op, args, ret, arith>>

\* a call of the returned function with an arc length s
CallReparametrized ==
    /\ pc = "built"
    /\ op = "reparametrizeCurveByArcLength"
    /\ \E s \in Queries(table) :
           /\ args' = [curve |-> args.curve, numSegments |-> args.numSegments,
                       s |-> s]
           /\ ret' = reparametrized(table, locals.ts, s)
           /\ locals' = [ts |-> locals.ts,
                         idx |-> arrayBinarySearch(table, s, 0, Len(table) - 1)]
    /\ pc' = "done"
    /\ UNCHANGED <<op, table, arith>>

NextReparam ==
    \/ CallReparametrizeCurveByArcLength
    \/ CallReparametrized

SpecReparam == InitReparam /\ [][NextReparam]_vars

\* ------------------------------------ claims on the reparametrisation
\* C11: the function returned by reparametrizeCurveByArcLength returns t = 0
\* for every s <= 0 and t = 1 for every s >= total curve length, and reads
\* the cumulative-length array only inside its bounds (st[idx], st[idx+1]).
C11_EdgePolicy ==
    Returned("reparametrizeCurveByArcLength") =>
        /\ RLe(args.s, Z(0)) => ret = Z(0)
        /\ RLe(TableTotal, args.s) => ret = Z(1)
        /\ locals.idx \in 0..(Len(table) - 2)

\* C12: for every sample index i in 0..numSegments-1, the returned function
\* called with s = st[i] returns i/numSegments.
C12_SampleLengthToParameter ==
    Returned("reparametrizeCurveByArcLength") =>
        \A i \in 0..(args.numSegments - 1) :
            args.s = TableAt(table, i) => ret = RDiv(Z(i), Z(args.numSegments))

\* ------------------------------------------------- Vec2, degenerate cases
dot(v, other) == RAdd(RMul(v.x, other.x), RMul(v.y, other.y))

magnitudeSquared(v) == dot(v, v)

magnitude(v) == RSqrt(magnitudeSquared(v))

divScale(v, scalar) ==
    IF REq(scalar, Z(0)) THEN Vec2zero ELSE scale(v, RDiv(Z(1), scalar))

normalized(v) == divScale(v, magnitude(v))

\* ---------------------------------------------------- Vec2 specification
\* vectors with integer components in -1..MaxVec
Vecs == {Vec2(Z(x), Z(y)) : x \in -1..MaxVec, y \in -1..MaxVec}

InitVec2 ==
    /\ pc = "call"
    /\ \/ /\ op = "componentDiv"
          /\ args \in [v : Vecs, other : Vecs]
       \/ /\ op = "divScale"
          /\ args \in [v : Vecs, scalar : TVals]
       \/ /\ op = "normalized"
          /\ args \in [v : Vecs]
       \/ /\ op = "lerp"
          /\ args \in [v : Vecs, to : Vecs, amount : TVals]
    /\ ret = None
    /\ table = <<>>
    /\ locals = None
    /\ arith = "exact"

CallComponentDiv ==
    /\ pc = "call"
    /\ op = "componentDiv"
    /\ ret' = componentDiv(args.v, args.other)
    /\ pc' = "done"
    /\ UNCHANGED <<op, args, table, locals, arith>>

CallDivScale ==
    /\ pc = "call"
    /\ op = "divScale"
    /\ ret' = divScale(args.v, args.scalar)
    /\ pc' = "done"
    /\ UNCHANGED <<op, args, table, locals, arith>>

CallNormalized ==
    /\ pc = "call"
    /\ op = "normalized"
    /\ ret' = normalized(args.v)
    /\ pc' = "done"
    /\ UNCHANGED <<op, args, table, locals, arith>>

CallLerp ==
    /\ pc = "call"
    /\ op = "lerp"
    /\ ret' = lerp(args.v, args.to, args.amount)
    /\ pc' = "done"
    /\ UNCHANGED <<op, args, table, locals, arith>>

NextVec2 ==
    \/ CallComponentDiv
    \/ CallDivScale
    \/ CallNormalized
    \/ CallLerp

SpecVec2 == InitVec2 /\ [][NextVec2]_vars

\* ------------------------------------------------------- claims on Vec2
\* a vector was returned, both components finite numbers
IsFiniteVec2(v) ==
    /\ DOMAIN v = {"x", "y"}
    /\ IsFinite(v.x) /\ IsFinite(v.y)

\* C13: degenerate vector operations return a defined result and never
\* fail: componentDiv yields 0 in each component whose divisor component is
\* 0 and the ordinary quotient in the other, divScale(0) returns the zero
\* vector, and normalized() of the zero vector returns the zero vector.
C13_DegenerateVectorOps ==
    /\ Returned("componentDiv") =>
           /\ IsFiniteVec2(ret)
           /\ IF args.other.x = Z(0) THEN ret.x = Z(0)
              ELSE RMul(ret.x, args.other.x) = args.v.x
           /\ IF args.other.y = Z(0) THEN ret.y = Z(0)
              ELSE RMul(ret.y, args.other.y) = args.v.y
    /\ Returned("divScale") =>
           /\ IsFiniteVec2(ret)
           /\ args.scalar = Z(0) => ret = Vec2zero
    /\ Returned("normalized") =>
           /\ IsFiniteVec2(ret)
           /\ args.v = Vec2zero => ret = Vec2zero

\* (1,-1) divided by (0,-1): the x divisor is 0, the y quotient is 1
C13_Witness ==
    /\ Returned("componentDiv")
    /\ args.v = Vec2(Z(1), Z(-1))
    /\ args.other = Vec2(Z(0), Z(-1))
    /\ ret = Vec2(Z(0), Z(1))

\* C18: for all vectors a and b, a.lerp(b,0) = a, a.lerp(b,1) = b and
\* a.lerp(b,1/2) = (a+b)/2; lerp is unclamped: for every amount t, inside
\* [0,1] or not, the result is the point (1-t)a + tb of the line through
\* a and b.
C18_LerpUnclamped ==
    Returned("lerp") =>
        LET a == args.v
            b == args.to
            t == args.amount
        IN  /\ t = Z(0) => ret = a
            /\ t = Z(1) => ret = b
            /\ t = Num(1, 2) => ret = scale(add(a, b), Num(1, 2))
            /\ ret = add(scale(a, RSub(Z(1), t)), scale(b, t))

\* an amount of 2 carries (-1,1) past (1,0) to (3,-1)
C18_Witness ==
    /\ Returned("lerp")
    /\ args.v = Vec2(Z(-1), Z(1))
    /\ args.to = Vec2(Z(1), Z(0))
    /\ args.amount = Z(2)
    /\ ret = Vec2(Z(3), Z(-1))

\* ------------------------------------------------------ Matrix algebra
\* a Matrix object: its field data holds the columns
Matrix(data) == [data |-> data]

\* Array.from({ length: x.columns }, (_, column) => f(column)); the provider
\* f is given as its values on the column indices 0..x.columns-1
withColumnProvider(x, f) ==
    Matrix([column \in 1..x.columns |-> f[column - 1]])

\* the (row, column) pairs a provider is called on for a matrix of size x
Cells(x) == (0..(x.rows - 1)) \X (0..(x.columns - 1))

\* the matrix of the elements f({row, column}), f given as its values on
\* Cells(x); an exception thrown by f leaves withProvider
withProvider(x, f) ==
    IF \E rc \in Cells(x) : f[rc] = TypeError
    THEN TypeError
    ELSE withColumnProvider(x,
             [column \in 0..(x.columns - 1) |->
                 [row \in 1..x.rows |-> f[<<row - 1, column>>]]])

size(m) == MatrixSize(m.data)

\* this.at({row, column}): a column outside the matrix is undefined and
\* indexing it throws; a row outside its column reads undefined, which
\* turns into NaN in the arithmetic it is used in
at(m, row, column) ==
    IF column \notin 0..(Len(m.data) - 1) THEN TypeError
    ELSE TableAt(m.data[column + 1], row)

\* the identity with its ones on the other diagonal
identity_antiDiagonal(n) ==
    LET x == [rows |-> n, columns |-> n]
    IN  withProvider(x, [rc \in Cells(x) |->
                            IF rc[1] + rc[2] = n - 1 THEN Z(1) ELSE Z(0)])

identity(n) ==
    LET x == [rows |-> n, columns |-> n]
    IN  withProvider(x, [rc \in Cells(x) |->
                            IF rc[1] = rc[2] THEN Z(1) ELSE Z(0)])

matrixAdd(m, other) ==
    withProvider(size(m),
                 [rc \in Cells(size(m)) |->
                     IF at(other, rc[1], rc[2]) = TypeError THEN TypeError
                     ELSE RAdd(at(m, rc[1], rc[2]), at(other, rc[1], rc[2]))])

matrixSub(m, other) ==
    withProvider(size(m),
                 [rc \in Cells(size(m)) |->
                     IF at(other, rc[1], rc[2]) = TypeError THEN TypeError
                     ELSE RSub(at(m, rc[1], rc[2]), at(other, rc[1], rc[2]))])

\* the elements of each column read from its end
transpose_rotated(m) ==
    LET x == [rows |-> size(m).columns, columns |-> size(m).rows]
    IN  withProvider(x, [rc \in Cells(x) |->
                            at(m, size(m).rows - 1 - rc[2], rc[1])])

transpose(m) ==
    LET x == [rows |-> size(m).columns, columns |-> size(m).rows]
    IN  withProvider(x, [rc \in Cells(x) |-> at(m, rc[2], rc[1])])

mul(m, other) ==
    LET x == [rows |-> size(m).rows, columns |-> size(other).columns]
    IN  withColumnProvider(x,
            [column \in 0..(x.columns - 1) |->
                mulVecN(m.data, other.data[column + 1])])

\* -------------------------------------------------- Matrix specification
\* the elements of the matrices
Entries == {Z(0), Z(1), Z(2)}

\* the matrices of r rows and c columns over the set S, column-major
MatricesOf(r, c, S) == {Matrix(data) : data \in [1..c -> [1..r -> S]]}

Dims == 1..MaxDim

\* the right operand of a binary operation: every shape, one value in all
\* its elements
Filled == UNION {MatricesOf(r, c, {e}) : r \in Dims, c \in Dims, e \in {Z(1), Z(2)}}

InitMatrix ==
    /\ pc = "call"
    /\ \/ /\ op = "transpose"
          /\ \E r \in Dims, c \in Dims : args \in [a : MatricesOf(r, c, Entries)]
       \/ /\ op = "identity.mul"
          /\ \E n \in Dims, c \in Dims :
                 args \in [n : {n}, a : MatricesOf(n, c, Entries)]
       \/ /\ op \in {"add", "sub", "mul"}
          /\ \E r \in Dims, c \in Dims :
                 args \in [a : MatricesOf(r, c, {Z(0), Z(1)}), other : Filled]
    /\ ret = None
    /\ table = <<>>
    /\ locals = None
    /\ arith = "exact"

\* A.transpose(), then .transpose() of its result
CallTranspose ==
    /\ op = "transpose"
    /\ \/ /\ pc = "call"
          /\ ret' = transpose(args.a)
          /\ pc' = "built"
       \/ /\ pc = "built"
          /\ ret' = transpose(ret)
          /\ pc' = "done"
    /\ UNCHANGED <<op, args, table, locals, arith>>

\* Matrix.identity(n).mul(A)
CallIdentityMul ==
    /\ pc = "call"
    /\ op = "identity.mul"
    /\ ret' = mul(identity(args.n), args.a)
    /\ pc' = "done"
    /\ UNCHANGED <<op, args, table, locals, arith>>

CallMatrixAdd ==
    /\ pc = "call"
    /\ op = "add"
    /\ ret' = matrixAdd(args.a, args.other)
    /\ pc' = "done"
    /\ UNCHANGED <<op, args, table, locals, arith>>

CallMatrixSub ==
    /\ pc = "call"
    /\ op = "sub"
    /\ ret' = matrixSub(args.a, args.other)
    /\ pc' = "done"
    /\ UNCHANGED <<op, args, table, locals, arith>>

CallMatrixMul ==
    /\ pc = "call"
    /\ op = "mul"
    /\ ret' = mul(args.a, args.other)
    /\ pc' = "done"
    /\ UNCHANGED <<op, args, table, locals, arith>>

NextMatrix ==
    \/ CallTranspose
    \/ CallIdentityMul
    \/ CallMatrixAdd
    \/ CallMatrixSub
    \/ CallMatrixMul

SpecMatrix == InitMatrix /\ [][NextMatrix]_vars

\* ----------------------------------------------------- claims on Matrix
\* the rejection the specification asks for on incompatible dimensions
DimensionMismatch == [error |-> "DimensionMismatch"]

\* the dimensions of the operands do not allow the operation
Incompatible ==
    LET sa == size(args.a)
        sb == size(args.other)
    IN  IF op = "mul" THEN sa.columns # sb.rows ELSE sa # sb

\* C14: add, sub and mul invoked with incompatible dimensions are rejected
\* and no result matrix is produced.
C14_DimensionMismatchRejected ==
    ((Returned("add") \/ Returned("sub") \/ Returned("mul")) /\ Incompatible) =>
        ret \in {DimensionMismatch, TypeError}

\* C19: for every matrix A of R x C (R, C >= 1), A.transpose().transpose()
\* has the same size as A and the same element at every (row, column).
C19_TransposeInvolution ==
    Returned("transpose") =>
        /\ size(ret) = size(args.a)
        /\ \A row \in 0..(size(args.a).rows - 1) :
               \A column \in 0..(size(args.a).columns - 1) :
                   at(ret, row, column) = at(args.a, row, column)

\* a matrix of 2 rows and 1 column with different elements, back from its
\* two transpositions
C19_Witness ==
    /\ Returned("transpose")
    /\ args.a = Matrix(<< <<Z(1), Z(2)>> >>)
    /\ ret = Matrix(<< <<Z(1), Z(2)>> >>)

\* C20: for every n and every matrix A with n rows, Matrix.identity(n).mul(A)
\* has the same size and the same elements as A.
C20_IdentityMul ==
    Returned("identity.mul") =>
        /\ size(ret) = size(args.a)
        /\ \A row \in 0..(size(args.a).rows - 1) :
               \A column \in 0..(size(args.a).columns - 1) :
                   at(ret, row, column) = at(args.a, row, column)

\* the identity of order 2 times a matrix of 2 rows and 1 column that is
\* not symmetric under a swap of its rows
C20_Witness ==
    /\ Returned("identity.mul")
    /\ args.n = 2
    /\ args.a = Matrix(<< <<Z(1), Z(2)>> >>)
    /\ ret = Matrix(<< <<Z(1), Z(2)>> >>)

\* --------------------------------------------------------- Rect.insetEach
withCorners(a, b) ==
    LET minX == Min(a.x, b.x)
        minY == Min(a.y, b.y)
        maxX == Max(a.x, b.x)
        maxY == Max(a.y, b.y)
    IN  Rect(Vec2(minX, minY), Vec2(RSub(maxX, minX), RSub(maxY, minY)))

\* the two bounds of one axis after the test for a crossing
collapse(min, max) ==
    IF RLt(max, min)
    THEN LET mid == RDiv(RAdd(max, min), Z(2)) IN <<mid, mid>>
    ELSE <<min, max>>

\* the crossing axis left as it is
insetEach_uncollapsed(r, insets) ==
    LET lo == convertNormalizedCoordinate(r, Vec2(Z(0), Z(0)))
        hi == convertNormalizedCoordinate(r, Vec2(Z(1), Z(1)))
    IN  withCorners(Vec2(RAdd(lo.x, insets.left), RAdd(lo.y, insets.top)),
                    Vec2(RSub(hi.x, insets.right), RSub(hi.y, insets.bottom)))

insetEach(r, insets) ==
    LET lo == convertNormalizedCoordinate(r, Vec2(Z(0), Z(0)))
        hi == convertNormalizedCoordinate(r, Vec2(Z(1), Z(1)))
        x == collapse(RAdd(lo.x, insets.left), RSub(hi.x, insets.right))
        y == collapse(RAdd(lo.y, insets.top), RSub(hi.y, insets.bottom))
    IN  withCorners(Vec2(x[1], y[1]), Vec2(x[2], y[2]))

\* ----------------------------------------------------- Canvas.canvasMat
\* the y scale left with the sign of the x scale
canvasMat_unflippedY(canvasSize, viewRect, pixelRatio) ==
    LET sx == RMul(RDiv(viewRect.size.x, canvasSize.x), pixelRatio)
        sy == RMul(RDiv(viewRect.size.y, canvasSize.y), pixelRatio)
        tx == Z(0)
        ty == RMul(canvasSize.y, pixelRatio)
    IN  Matrix(<< <<sx, Z(0), Z(0)>>,
                  <<Z(0), sy, Z(0)>>,
                  <<tx, ty, Z(1)>> >>)

canvasMat(canvasSize, viewRect, pixelRatio) ==
    LET sx == RMul(RDiv(viewRect.size.x, canvasSize.x), pixelRatio)
        sy == RMul(RDiv(RNeg(viewRect.size.y), canvasSize.y), pixelRatio)
        tx == Z(0)
        ty == RMul(canvasSize.y, pixelRatio)
    IN  Matrix(<< <<sx, Z(0), Z(0)>>,
                  <<Z(0), sy, Z(0)>>,
                  <<tx, ty, Z(1)>> >>)

\* ------------------------------------------ Rect and Canvas specification
\* inset amounts: an outset of 1, none, and insets up to MaxInset
InsetVals == {Z(i) : i \in -1..MaxInset}

Insets == [left : InsetVals, right : InsetVals, top : InsetVals, bottom : InsetVals]

\* canvas sizes in CSS pixels, an empty canvas included
CanvasSizes == {Vec2(Z(w), Z(h)) : w \in 0..MaxCanvas, h \in 0..MaxCanvas}

\* window.devicePixelRatio of common displays
PixelRatios == {Z(1), Num(3, 2), Z(2)}

InitRect ==
    /\ pc = "call"
    /\ \/ /\ op = "insetEach"
          /\ args \in [r : Rects, insets : Insets]
       \/ /\ op = "canvasMat"
          /\ args \in [canvasSize : CanvasSizes, viewRect : Rects,
                       pixelRatio : PixelRatios]
    /\ ret = None
    /\ table = <<>>
    /\ locals = None
    /\ arith = "exact"

CallInsetEach ==
    /\ pc = "call"
    /\ op = "insetEach"
    /\ ret' = insetEach(args.r, args.insets)
    /\ pc' = "done"
    /\ UNCHANGED <<op, args, table, locals, arith>>

CallCanvasMat ==
    /\ pc = "call"
    /\ op = "canvasMat"
    /\ ret' = canvasMat(args.canvasSize, args.viewRect, args.pixelRatio)
    /\ pc' = "done"
    /\ UNCHANGED <<op, args, table, locals, arith>>

NextRect ==
    \/ CallInsetEach
    \/ CallCanvasMat

SpecRect == InitRect /\ [][NextRect]_vars

\* ------------------------------------------- claims on Rect and Canvas
\* the edges of one axis after shrinking, and what the result has on it
InsetAxisOk(lo, hi, origin, extent) ==
    /\ IsFinite(origin) /\ IsFinite(extent)
    /\ ~RLt(extent, Z(0))
    /\ IF RLt(hi, lo)
       THEN extent = Z(0) /\ origin = RDiv(RAdd(lo, hi), Z(2))
       ELSE origin = lo /\ extent = RSub(hi, lo)

\* C16: in Rect.insetEach, when shrinking makes min > max on an axis, the
\* result has size exactly 0 on that axis (never negative) at the midpoint
\* of the two shrunk edges, while an axis that does not cross is inset by
\* its named amounts (left and top on the lower edges, right and bottom on
\* the far edges); the operation never fails.
C16_InsetCollapsesToMidpoint ==
    Returned("insetEach") =>
        LET far == farCorner(args.r) IN
        /\ InsetAxisOk(RAdd(args.r.origin.x, args.insets.left),
                       RSub(far.x, args.insets.right),
                       ret.origin.x, ret.size.x)
        /\ InsetAxisOk(RAdd(args.r.origin.y, args.insets.top),
                       RSub(far.y, args.insets.bottom),
                       ret.origin.y, ret.size.y)

\* a rect of width 1 inset by 2 on the left only: x collapses to the
\* midpoint 3/2 of the edges 2 and 1, y is inset by 1 from its far edge
C16_Witness ==
    /\ Returned("insetEach")
    /\ args.r = Rect(Vec2(Z(0), Z(0)), Vec2(Z(1), Z(2)))
    /\ args.insets = [left |-> Z(2), right |-> Z(0), top |-> Z(0), bottom |-> Z(1)]
    /\ ret = Rect(Vec2(Num(3, 2), Z(0)), Vec2(Z(0), Z(1)))

\* C17: canvasMat(density) returns the 3x3 matrix with x-scale
\* (viewRect.width/canvasSize.width)*density, y-scale the negation of
\* (viewRect.height/canvasSize.height)*density, x-translation 0 and
\* y-translation canvasSize.height*density; with positive sizes the world
\* origin maps to the bottom-left device pixel (0, canvasSize.height*density)
\* and a larger world y gives a smaller device y.
C17_CanvasMatFlipsY ==
    Returned("canvasMat") =>
        LET W == args.canvasSize.x
            H == args.canvasSize.y
            w == args.viewRect.size.x
            h == args.viewRect.size.y
            density == args.pixelRatio
        IN  /\ size(ret) = [rows |-> 3, columns |-> 3]
            /\ at(ret, 0, 0) = RMul(RDiv(w, W), density)
            /\ at(ret, 1, 1) = RNeg(RMul(RDiv(h, H), density))
            /\ at(ret, 0, 2) = Z(0)
            /\ at(ret, 1, 2) = RMul(H, density)
            /\ at(ret, 1, 0) = Z(0) /\ at(ret, 0, 1) = Z(0)
            /\ at(ret, 2, 0) = Z(0) /\ at(ret, 2, 1) = Z(0) /\ at(ret, 2, 2) = Z(1)
            /\ (RLt(Z(0), W) /\ RLt(Z(0), H) /\ RLt(Z(0), w) /\ RLt(Z(0), h)) =>
                   /\ mulVec2(ret.data, Vec2zero) = Vec2(Z(0), RMul(H, density))
                   /\ RLt(mulVec2(ret.data, Vec2(Z(0), Z(1))).y,
                          mulVec2(ret.data, Vec2zero).y)

\* a 2 x 1 canvas at density 3/2 under a view of 1 x 2: scales 3/4 and -3,
\* the world origin at device (0, 3/2)
C17_Witness ==
    /\ Returned("canvasMat")
    /\ args.canvasSize = Vec2(Z(2), Z(1))
    /\ args.viewRect.size = Vec2(Z(1), Z(2))
    /\ args.pixelRatio = Num(3, 2)
    /\ at(ret, 0, 0) = Num(3, 4)
    /\ at(ret, 1, 1) = Z(-3)
    /\ mulVec2(ret.data, Vec2zero) = Vec2(Z(0), Num(3, 2))

\* ------------------------------------- interpolators as closures over pts
\* The variables the function returned by an interpolator has captured.
\* LineSegmentsInterpolator captures the parameter pts, a reference to the
\* array it was passed, and numSegments; the other interpolators destructure
\* the array at construction and capture its elements (a Vec2 is immutable).
captured(name, pts) ==
    IF name = "LineSegmentsInterpolator"
    THEN [pts |-> "reference", numSegments |-> Len(pts) - 1]
    ELSE IF name = "QuadraticInterpolator"
    THEN [a |-> At(pts, 0), b |-> At(pts, 1), c |-> At(pts, 2)]
    ELSE [a |-> At(pts, 0), b |-> At(pts, 1), c |-> At(pts, 2), d |-> At(pts, 3)]

\* the returned function applied to t; array is what the array passed at
\* construction holds at the time of the call
applyInterpolator(name, env, array, t) ==
    IF name = "LineSegmentsInterpolator"
    THEN IF env.numSegments < 1
         THEN (IF Len(array) = 0 THEN Vec2zero ELSE array[1])
         ELSE LET r == remapParameterToSubRange(t, env.numSegments)
              IN  LineSegmentInterpolator(
                      <<At(array, r.index), At(array, r.index + 1)>>, r.parameter)
    ELSE IF name = "QuadraticInterpolator"
    THEN QuadraticInterpolator(<<env.a, env.b, env.c>>, t)
    ELSE IF name = "CubicInterpolator"
    THEN CubicInterpolator(<<env.a, env.b, env.c, env.d>>, t)
    ELSE HermiteInterpolator(<<env.a, env.b, env.c, env.d>>, t)

\* the value of interpolator(pts)(t) when nothing happens in between
interpolate(name, pts, t) == applyInterpolator(name, captured(name, pts), pts, t)

\* ---------------------------------------------- closure specification
\* args.pts keeps the points as they were passed; table is the array itself
InitClosure ==
    /\ pc = "call"
    /\ \/ /\ op = "LineSegmentsInterpolator"
          /\ \E n \in 0..MaxChain :
                 args \in [pts : SeqsOfLen(Points, n), t : TVals]
       \/ /\ op = "QuadraticInterpolator"
          /\ args \in [pts : SeqsOfLen(Points, 3), t : TVals]
       \/ /\ op \in {"CubicInterpolator", "HermiteInterpolator"}
          /\ args \in [pts : SeqsOfLen(Points, 4), t : TVals]
    /\ ret = None
    /\ table = args.pts
    /\ locals = None
    /\ arith = "exact"

\* const eqn = interpolator(pts)
ConstructInterpolator ==
    /\ pc = "call"
    /\ locals' = captured(op, table)
    /\ pc' = "built"
    /\ UNCHANGED <<op, args, ret, table, arith>>

\* pts[index] = p by the holder of the array, as onMouseMove does with
\* interactivePoints
ReplacePoint ==
    /\ pc = "built"
    /\ \E index \in 1..Len(table) : \E p \in Points :
           table' = [table EXCEPT ![index] = p]
    /\ pc' = "replaced"
    /\ UNCHANGED <<op, args, ret, locals, arith>>

\* eqn(t)
ApplyInterpolator ==
    /\ pc \in {"built", "replaced"}
    /\ ret' = applyInterpolator(op, locals, table, args.t)
    /\ pc' = "done"
    /\ UNCHANGED <<op, args, table, locals, arith>>

NextClosure ==
    \/ ConstructInterpolator
    \/ ReplacePoint
    \/ ApplyInterpolator

SpecClosure == InitClosure /\ [][NextClosure]_vars

\* -------------------------------------------------- claims on closures
\* C15: each interpolator closes over its own copy of the control points
\* taken at construction: after an element of the array passed to it has
\* been replaced, the built function still returns, for every t, the value
\* it returns for the points as they were passed.
C15_ClosesOverOwnCopy ==
    pc = "done" => ret = interpolate(op, args.pts, args.t)

\* ------------------------------------------- index.ts: interactive app
\* A key is the sequence of the characters of KeyboardEvent.key.
Digits == <<"0", "1", "2", "3", "4", "5", "6", "7", "8", "9">>

IsDigit(c) == \E i \in 1..Len(Digits) : Digits[i] = c

DigitValue(c) == (CHOOSE i \in 1..Len(Digits) : Digits[i] = c) - 1

RECURSIVE parseIntFrom(_, _, _)
\* the digits of str from position i on, read in base 10 after acc
parseIntFrom(str, i, acc) ==
    IF i > Len(str) \/ ~IsDigit(str[i]) THEN acc
    ELSE parseIntFrom(str, i + 1, (10 * acc) + DigitValue(str[i]))

\* Number.parseInt(str): leading blanks skipped, an optional sign, then the
\* longest run of digits; NaN when there is no digit to read
parseInt(str) ==
    LET RECURSIVE skip(_)
        skip(i) == IF i <= Len(str) /\ str[i] = " " THEN skip(i + 1) ELSE i
        b == skip(1)
        signed == b <= Len(str) /\ str[b] \in {"+", "-"}
        d == IF signed THEN b + 1 ELSE b
    IN  IF d > Len(str) \/ ~IsDigit(str[d]) THEN NaN
        ELSE IF signed /\ str[b] = "-" THEN Z(0 - parseIntFrom(str, d, 0))
        ELSE Z(parseIntFrom(str, d, 0))

\* const interactivePoints = [...]
interactivePoints ==
    << Vec2(Z(-1), Z(-1)), Vec2(Num(-3, 4), Z(1)),
       Vec2(Num(3, 4), Num(-1, 2)), Vec2(Num(5, 4), Num(3, 4)) >>

\* the three let variables of the module
AppState(index, count, interpolator) ==
    [currentPointIndex |-> index, numberOfInteractivePoints |-> count,
     interpolatorIndex |-> interpolator]

\* the digit selects dot number index, counted from 0
onKeyDown_zeroBased(state, points, key) ==
    LET index == parseInt(key)
    IN  IF ~IsNaN(index) /\ index.n >= 0 /\ index.n <= Len(points)
        THEN [state EXCEPT !.currentPointIndex = index.n]
        ELSE state

\* 'q' selects the quadratic interpolator and keeps four points
onKeyDown_quadraticOfFour(state, points, key) ==
    LET index == parseInt(key)
    IN  IF ~IsNaN(index) /\ index.n >= 0 /\ index.n <= Len(points)
        THEN [state EXCEPT !.currentPointIndex = index.n - 1]
        ELSE IF key = <<"q">>
        THEN [state EXCEPT !.interpolatorIndex = 1]
        ELSE state

\* onKeyDown: (key) => {...}: the module variables after the handler
onKeyDown(state, points, key) ==
    LET index == parseInt(key)
    IN  IF ~IsNaN(index) /\ index.n >= 0 /\ index.n <= Len(points)
        THEN [state EXCEPT !.currentPointIndex = index.n - 1]
        ELSE IF key = <<"l">>
        THEN [state EXCEPT !.interpolatorIndex = 0,
                           !.numberOfInteractivePoints = 4]
        ELSE IF key = <<"q">>
        THEN [state EXCEPT !.interpolatorIndex = 1,
                           !.numberOfInteractivePoints = 3]
        ELSE IF key = <<"c">>
        THEN [state EXCEPT !.interpolatorIndex = 2,
                           !.numberOfInteractivePoints = 4]
        ELSE IF key = <<"h">>
        THEN [state EXCEPT !.interpolatorIndex = 3,
                           !.numberOfInteractivePoints = 4]
        ELSE state

\* the reported point replaces the first dot whenever a dot is active
onMouseMove_firstDot(state, points, p) ==
    IF state.currentPointIndex >= 0
    THEN [points EXCEPT ![1] = p]
    ELSE points

\* onMouseMove: (p) => {...}: interactivePoints after the handler
onMouseMove(state, points, p) ==
    IF state.currentPointIndex >= 0
    THEN [points EXCEPT ![state.currentPointIndex + 1] = p]
    ELSE points

\* the interpolators of the renderer's array, by interpolatorIndex
InterpolatorNames ==
    << "LineSegmentsInterpolator", "QuadraticInterpolator",
       "CubicInterpolator", "HermiteInterpolator" >>

\* the renderer: the interpolator it picks, the points it passes to it
\* (interactivePoints.slice(0, numberOfInteractivePoints)) and the dots it
\* draws (index < numberOfInteractivePoints)
renderer(state, points) ==
    [interpolator |-> InterpolatorNames[state.interpolatorIndex + 1],
     pts |-> SubSeq(points, 1, state.numberOfInteractivePoints),
     dots |-> {index \in 0..(Len(points) - 1) :
                   index < state.numberOfInteractivePoints}]

\* ------------------------------------------------- app specification
\* table is interactivePoints, locals the three let variables, op and args
\* the last event, ret what the last frame rendered
Keys ==
    { <<"0">>, <<"1">>, <<"2">>, <<"3">>, <<"4">>, <<"5">>,
      <<"l">>, <<"q">>, <<"c">>, <<"h">>, <<"L">>, <<"-">>, <<" ">>,
      <<"F", "1">>, <<"E", "n", "t", "e", "r">> }

\* points the mouse reports, in viewport coordinates
MousePoints == {Vec2(Z(0), Z(0)), Vec2(Num(1, 2), Num(-3, 2))}

InitApp ==
    /\ pc = "call"
    /\ op = "root"
    /\ args = None
    /\ ret = None
    /\ table = interactivePoints
    /\ locals = AppState(-1, 4, 0)
    /\ arith = "exact"

KeyDown ==
    \E key \in Keys :
        /\ op' = "onKeyDown"
        /\ args' = [key |-> key]
        /\ locals' = onKeyDown(locals, table, key)
        /\ ret' = None
        /\ pc' = "done"
        /\ UNCHANGED <<table, arith>>

MouseMove ==
    \E p \in MousePoints :
        /\ op' = "onMouseMove"
        /\ args' = [p |-> p]
        /\ table' = onMouseMove(locals, table, p)
        /\ ret' = None
        /\ pc' = "done"
        /\ UNCHANGED <<locals, arith>>

\* one tick of runRenderLoop
Render ==
    /\ op' = "renderer"
    /\ args' = None
    /\ ret' = renderer(locals, table)
    /\ pc' = "done"
    /\ UNCHANGED <<table, locals, arith>>

NextApp ==
    \/ KeyDown
    \/ MouseMove
    \/ Render

SpecApp == InitApp /\ [][NextApp]_vars

\* ------------------------------------------------ claims on the app
\* the step is the handling of a key press / of a mouse move
IsKeyDown == op' = "onKeyDown" /\ pc' = "done"

IsMouseMove == op' = "onMouseMove" /\ pc' = "done"

DotKeys == { <<"1">>, <<"2">>, <<"3">>, <<"4">> }

\* C21: after any sequence of key presses, pressing '1'..'4' makes dot
\* key - 1 the active dot, pressing '0' leaves no dot active, every other
\* key leaves the active dot unchanged, and currentPointIndex stays within
\* -1..3.
C21_KeysSelectDot ==
    /\ [](locals.currentPointIndex \in -1..3)
    /\ [][IsKeyDown =>
            LET key == args'.key
            IN  /\ key \in DotKeys =>
                    locals'.currentPointIndex = DigitValue(key[1]) - 1
                /\ key = <<"0">> => locals'.currentPointIndex = -1
                /\ key \notin DotKeys \cup { <<"0">> } =>
                    locals'.currentPointIndex = locals.currentPointIndex
         ]_vars

\* C21 witness: dot 3 (index 2) is the active dot after a press of '3'
C21_Witness ==
    /\ op = "onKeyDown"
    /\ args.key = <<"3">>
    /\ locals.currentPointIndex = 2

\* C22: a mouse move replaces only the active dot's position with the
\* reported point and leaves the other dots, the active index and the
\* interpolator selection unchanged; with no active dot it changes nothing.
C22_MouseMovesActiveDot ==
    [][IsMouseMove =>
         /\ locals' = locals
         /\ Len(table') = Len(table)
         /\ \A i \in 1..Len(table) :
                table'[i] = IF i = locals.currentPointIndex + 1
                            THEN args'.p ELSE table[i]
      ]_vars

\* C22 witness: the second dot is active and has been moved to the
\* reported point, away from where it started
C22_Witness ==
    /\ op = "onMouseMove"
    /\ locals.currentPointIndex = 1
    /\ table[2] = args.p
    /\ table[2] # interactivePoints[2]

\* the number of control points an interpolator destructures
Arity(name) == IF name = "QuadraticInterpolator" THEN 3 ELSE 4

\* C25: the number of interactive points equals the arity of the selected
\* interpolator (3 exactly for the quadratic, 4 for the others), every
\* frame builds the interpolator from that many points, and a digit key
\* never changes the selection.
C25_PointCountMatchesArity ==
    /\ [](/\ locals.numberOfInteractivePoints =
                 Arity(InterpolatorNames[locals.interpolatorIndex + 1])
          /\ op = "renderer" => Len(ret.pts) = Arity(ret.interpolator))
    /\ [][IsKeyDown /\ ~IsNaN(parseInt(args'.key)) =>
            /\ locals'.interpolatorIndex = locals.interpolatorIndex
            /\ locals'.numberOfInteractivePoints =
                   locals.numberOfInteractivePoints
         ]_vars

\* C25 witness: a frame rendered with the quadratic interpolator selected
C25_Witness ==
    /\ op = "renderer"
    /\ ret.interpolator = "QuadraticInterpolator"
    /\ Len(ret.pts) = 3

\* C26: the active dot is one of the dots displayed and used by the curve:
\* whenever currentPointIndex >= 0 it is below numberOfInteractivePoints.
C26_ActiveDotIsDisplayed ==
    locals.currentPointIndex >= 0 =>
        locals.currentPointIndex < locals.numberOfInteractivePoints

\* ------------------------------------- claims on the sub-range remapping
\* C24: for every parameter t and every segment count >= 1,
\* remapParameterToSubRange returns an index in 0..count-1 and a
\* sub-parameter in [0, 1], so LineSegmentsInterpolator reads two existing
\* control points pts[index] and pts[index + 1].
C24_RemapStaysInRange ==
    (Returned("LineSegmentsInterpolator") /\ Len(args.pts) >= 2) =>
        LET count == Len(args.pts) - 1
            r == remapParameterToSubRange(args.t, count)
        IN  /\ r.index \in 0..(count - 1)
            /\ RLe(Z(0), r.parameter) /\ RLe(r.parameter, Z(1))
            /\ At(args.pts, r.index) # Undefined
            /\ At(args.pts, r.index + 1) # Undefined
            /\ ret # TypeError

\* -------------------------------------------- total arc length of a curve
\* the loop of arcLength from step i on
RECURSIVE arcLengthFrom(_, _, _, _, _)
arcLengthFrom(points, steps, i, length, prevPoint) ==
    IF i > steps THEN length
    ELSE LET t == RDiv(Z(i), Z(steps))
             currentPoint == evaluateBezier(points, t)
         IN  arcLengthFrom(points, steps, i + 1,
                 RAdd(length, chordLength(currentPoint, prevPoint)),
                 currentPoint)

\* the loop stops one step short of the end of the curve
arcLength_shortByOneStep(points, steps) ==
    arcLengthFrom(points, steps - 1, 1, Z(0), evaluateBezier(points, Z(0)))

arcLength(points, steps) ==
    arcLengthFrom(points, steps, 1, Z(0), evaluateBezier(points, Z(0)))

\* both functions applied to the same control points and step count, in
\* exact and in rounded arithmetic
InitArcLength ==
    /\ pc = "call"
    /\ op = "arcLength"
    /\ \E n \in 0..MaxCtl :
           args \in [points : SeqsOfLen(Points3D, n), steps : 1..MaxSteps]
    /\ ret = None
    /\ table = <<>>
    /\ locals = None
    /\ arith \in {"exact", "rounded"}

\* arcLength(points, steps)
CallArcLength ==
    /\ pc = "call"
    /\ op = "arcLength"
    /\ ret' = arcLength(args.points, args.steps)
    /\ pc' = "built"
    /\ UNCHANGED <<op, args, table, locals, arith>>

\* buildArcLengthTable(points, steps), after arcLength has returned
CallBuildArcLengthTableAfter ==
    /\ pc = "built"
    /\ op = "arcLength"
    /\ table' = buildArcLengthTable(args.points, args.steps)
    /\ pc' = "done"
    /\ UNCHANGED <<op, args, ret, locals, arith>>

NextArcLength ==
    \/ CallArcLength
    \/ CallBuildArcLengthTableAfter

SpecArcLength == InitArcLength /\ [][NextArcLength]_vars

\* C23: for every control-point list and steps >= 1, arcLength(points,
\* steps) equals the last entry buildArcLengthTable(points, steps)[steps].
C23_ArcLengthIsLastEntry ==
    Returned("arcLength") =>
        /\ Len(table) = args.steps + 1
        /\ REq(ret, TableAt(table, args.steps))

\* C23 witness: a curve that is not a straight line, sampled in more than
\* one step, whose total length is positive
C23_Witness ==
    /\ Returned("arcLength")
    /\ args.steps >= 2
    /\ Len(args.points) = 3
    /\ args.points[2].y # Z(0)
    /\ args.points[3].x # Z(0)
    /\ RLt(Z(0), TableAt(table, 1))
    /\ RLt(TableAt(table, 1), ret)

\* ------------------------------------- composition of viewport transforms
\* the three ways of taking p from rect a through rect b to rect c
composedViewports(a, b, c, p) ==
    [composed |->
         mulVec2(mul(Matrix(viewportTransformation(b, c)),
                     Matrix(viewportTransformation(a, b))).data, p),
     sequential |->
         mulVec2(viewportTransformation(b, c),
                 mulVec2(viewportTransformation(a, b), p)),
     direct |-> mulVec2(viewportTransformation(a, c), p)]

\* rects with no zero extent: every origin, three shapes, one of them
\* with a negative width
NonDegenerateRects ==
    {Rect(o, sz) : o \in Origins,
                   sz \in {Vec2one, Vec2(Z(2), Z(1)), Vec2(Z(-1), Z(2))}}

\* the points transformed
ComposePoints == {Vec2zero, Vec2(Z(1), Z(2))}

InitCompose ==
    /\ pc = "call"
    /\ op = "viewportTransformation.mul"
    /\ args \in [a : NonDegenerateRects, b : NonDegenerateRects,
                 c : NonDegenerateRects, p : ComposePoints]
    /\ ret = None
    /\ table = <<>>
    /\ locals = None
    /\ arith = "exact"

CallComposedViewports ==
    /\ pc = "call"
    /\ op = "viewportTransformation.mul"
    /\ ret' = composedViewports(args.a, args.b, args.c, args.p)
    /\ pc' = "done"
    /\ UNCHANGED <<op, args, table, locals, arith>>

NextCompose == CallComposedViewports

SpecCompose == InitCompose /\ [][NextCompose]_vars

\* C27: viewport transforms compose as affine maps: for non-degenerate
\* rects A, B, C and every point p, the product matrix
\* viewportTransformation(B,C).mul(viewportTransformation(A,B)) applied to p
\* equals the two transforms applied one after the other, which equals
\* viewportTransformation(A,C) applied to p.
C27_ViewportsCompose ==
    Returned("viewportTransformation.mul") =>
        /\ ret.composed = ret.sequential
        /\ ret.sequential = ret.direct

\* ------------------------------------------- Derivative.ts: derivatives
\* an ImplicitFunction of the family F(x, y) = a*x + b*y + c
LinearImplicit(a, b, c) == [a |-> a, b |-> b, c |-> c]

\* fn(x, y)
applyImplicit(fn, x, y) == RAdd(RAdd(RMul(fn.a, x), RMul(fn.b, y)), fn.c)

\* the arrow functions n => fn(value, n) and n => fn(n, value), with the
\* variables they capture
BindFirst(fn, value) == [fn |-> fn, bound |-> "first", value |-> value]

BindSecond(fn, value) == [fn |-> fn, bound |-> "second", value |-> value]

\* the call g(n) of such an arrow function
applyExplicit(g, n) ==
    IF g.bound = "first" THEN applyImplicit(g.fn, g.value, n)
    ELSE applyImplicit(g.fn, n, g.value)

explictNumericDerivative(x, fn, dx) ==
    LET x0 == RSub(x, RDiv(dx, Z(2)))
        x1 == RAdd(x, RDiv(dx, Z(2)))
        y0 == applyExplicit(fn, x0)
        y1 == applyExplicit(fn, x1)
    IN  RDiv(RSub(y1, y0), dx)

implicitNumericDerivative(p, fn, dx, dy) ==
    LET x == p.x
        y == p.y
        df_dx == explictNumericDerivative(x, BindFirst(fn, x), dx)
        df_dy == explictNumericDerivative(y, BindSecond(fn, y), dy)
    IN  RDiv(RNeg(df_dx), df_dy)

\* ------------------------------------------- derivative specification
\* the coefficients of F, the points and the step widths
Coefficients == {Z(-1), Z(0), Z(1), Z(2)}

Steps == {Num(1, 2), Z(1), Z(-1)}

InitDerivative ==
    /\ pc = "call"
    /\ op = "implicitNumericDerivative"
    /\ \E a \in Coefficients, b \in Coefficients, c \in {Z(0), Z(1)} :
           args \in [p : Origins, fn : {LinearImplicit(a, b, c)},
                     dx : Steps, dy : Steps]
    /\ ret = None
    /\ table = <<>>
    /\ locals = None
    /\ arith = "exact"

CallImplicitNumericDerivative ==
    /\ pc = "call"
    /\ op = "implicitNumericDerivative"
    /\ ret' = implicitNumericDerivative(args.p, args.fn, args.dx, args.dy)
    /\ pc' = "done"
    /\ UNCHANGED <<op, args, table, locals, arith>>

NextDerivative == CallImplicitNumericDerivative

SpecDerivative == InitDerivative /\ [][NextDerivative]_vars

\* C29: for every linear F(x, y) = a*x + b*y + c with b # 0, every point p
\* and non-zero dx, dy, implicitNumericDerivative returns the slope
\* -(dF/dx)/(dF/dy) = -a/b of the curve F(x, y) = 0.
C29_SlopeOfLinearCurve ==
    (Returned("implicitNumericDerivative") /\ args.fn.b # Z(0)) =>
        ret = RDiv(RNeg(args.fn.a), args.fn.b)

\* ------------------------------------------ GraphingCanvas: text labels
\* The object is the record [texts, container, sizeDirty, canvasRect,
\* viewport, created]: texts is the texts object as the sequence of its
\* properties in insertion order, each [key, value]; container the children
\* of drawCanvas.unsafeContainerElement in document order; an element is
\* the number of its creation and created counts the elements made so far.
\* What render() draws on the canvas and the style.left/top it gives the
\* elements are not part of the state.

\* obj[name] of JavaScript: undefined when the object has no such property
Field(obj, name) == IF name \in DOMAIN obj THEN obj[name] ELSE Undefined

\* obj[name] === value for a value that is not undefined: false when the
\* object has no such property
FieldIs(obj, name, value) == name \in DOMAIN obj /\ obj[name] = value

\* key in this.texts
HasText(g, key) == \E i \in 1..Len(g.texts) : g.texts[i].key = key

\* this.texts[key]
TextAt(g, key) ==
    g.texts[CHOOSE i \in 1..Len(g.texts) : g.texts[i].key = key].value

\* a sequence without the members that equal x
Without(seq, x) ==
    LET Keep(e) == e # x IN SelectSeq(seq, Keep)

removeLatexString(g, key) ==
    IF HasText(g, key)
    THEN LET element == TextAt(g, key).element
             Other(e) == e.key # key
         IN  [g EXCEPT !.container = Without(g.container, element),
                       !.texts = SelectSeq(g.texts, Other)]
    ELSE g

addLatexString(g, key, config) ==
    LET source == Field(config, "source")
        removed == removeLatexString(g, key)
        element == removed.created + 1
        value == [element |-> element, source |-> source, config |-> config]
    IN  [removed EXCEPT !.created = element,
                        !.texts = Append(removed.texts,
                                         [key |-> key, value |-> value]),
                        !.container = Append(removed.container, element)]

\* texts.forEach(([k]) => this.removeLatexString(k)), from index i on
RECURSIVE removeEach(_, _, _)
removeEach(g, texts, i) ==
    IF i > Len(texts) THEN g
    ELSE removeEach(removeLatexString(g, texts[i].key), texts, i + 1)

\* texts.forEach(([key, data]) => this.addLatexString(key, data))
RECURSIVE addEach(_, _, _)
addEach(g, texts, i) ==
    IF i > Len(texts) THEN g
    ELSE addEach(addLatexString(g, texts[i].key, texts[i].value), texts, i + 1)

\* the filter reads positionRelativeTo of the entry {element, source,
\* config} itself, not of entry.config
rebuildTexts(g) ==
    LET IsViewport(e) == FieldIs(e.value, "positionRelativeTo", "viewport")
        texts == SelectSeq(g.texts, IsViewport)
    IN  addEach(removeEach(g, texts, 1), texts, 1)

\* render(): the part that changes the object
render(g) ==
    IF g.sizeDirty
    THEN [rebuildTexts(g) EXCEPT !.sizeDirty = FALSE]
    ELSE g

\* --------------------------------------- GraphingCanvas specification
\* table is the container's children, locals the GraphingCanvas object
LabelKeys == {"__title", "text"}

LaTexConfigs ==
    [source : {"(x, f(x))"}, positionRelativeTo : {"viewport", "canvas"}]

ViewRects == {Rect(Vec2zero, Vec2one), Rect(Vec2one, Vec2one)}

\* the object as the variables hold it
Graphing == [locals EXCEPT !.container = table]

InitGraphing ==
    /\ pc = "call"
    /\ op = "constructor"
    /\ args = None
    /\ ret = None
    /\ table = <<>>
    /\ locals = [texts |-> <<>>, container |-> <<>>, sizeDirty |-> FALSE,
                 canvasRect |-> Rect(Vec2zero, Vec2zero),
                 viewport |-> Rect(Vec2zero, Vec2zero), created |-> 0]
    /\ arith = "exact"

\* set canvasRect(r)
SetCanvasRect ==
    \E r \in ViewRects :
        /\ op' = "canvasRect"
        /\ args' = [r |-> r]
        /\ locals' = [locals EXCEPT !.canvasRect = r, !.sizeDirty = TRUE]
        /\ pc' = "done"
        /\ UNCHANGED <<ret, table, arith>>

\* set viewport(r)
SetViewport ==
    \E r \in ViewRects :
        /\ op' = "viewport"
        /\ args' = [r |-> r]
        /\ locals' = [locals EXCEPT !.viewport = r, !.sizeDirty = TRUE]
        /\ pc' = "done"
        /\ UNCHANGED <<ret, table, arith>>

\* addLatexString(key, config), by a caller or through addPlacard
AddLatexString ==
    /\ locals.created < MaxElements
    /\ \E key \in LabelKeys, config \in LaTexConfigs :
           LET g == addLatexString(Graphing, key, config) IN
           /\ op' = "addLatexString"
           /\ args' = [key |-> key, config |-> config]
           /\ locals' = g
           /\ table' = g.container
    /\ pc' = "done"
    /\ UNCHANGED <<ret, arith>>

\* graphingCanvas.render()
RenderGraphing ==
    /\ LET g == render(Graphing) IN
           /\ locals' = g
           /\ table' = g.container
    /\ op' = "render"
    /\ args' = None
    /\ pc' = "done"
    /\ UNCHANGED <<ret, arith>>

NextGraphing ==
    \/ SetCanvasRect
    \/ SetViewport
    \/ AddLatexString
    \/ RenderGraphing

SpecGraphing == InitGraphing /\ [][NextGraphing]_vars

\* -------------------------------------------- claims on GraphingCanvas
\* the number of children of the container that are element
Occurrences(container, element) ==
    Cardinality({i \in 1..Len(container) : container[i] = element})

\* each label key has one entry, and its element is in the container once;
\* the container holds nothing else
OneElementPerKey ==
    /\ \A i, j \in 1..Len(locals.texts) :
           locals.texts[i].key = locals.texts[j].key => i = j
    /\ \A i \in 1..Len(locals.texts) :
           Occurrences(table, locals.texts[i].value.element) = 1
    /\ Len(table) = Len(locals.texts)

\* C28: after the viewport or canvasRect is set, the next render() removes
\* and re-creates, exactly once, every label whose config is positioned
\* relative to the viewport, leaves canvas-relative labels untouched and
\* clears the dirty flag, so that later renders without a size change
\* rebuild nothing; at all times each label key has exactly one element in
\* the container.
C28_RenderRebuildsViewportLabels ==
    /\ []OneElementPerKey
    /\ [][(op' = "render" /\ pc' = "done") =>
            /\ locals'.sizeDirty = FALSE
            /\ ~locals.sizeDirty => (locals'.texts = locals.texts /\ table' = table)
            /\ locals.sizeDirty =>
                 \A i \in 1..Len(locals.texts) :
                     LET key == locals.texts[i].key
                         old == locals.texts[i].value
                     IN  IF old.config.positionRelativeTo = "viewport"
                         THEN /\ HasText(locals', key)
                              /\ TextAt(locals', key).element > locals.created
                              /\ Occurrences(table', old.element) = 0
                              /\ Occurrences(table',
                                     TextAt(locals', key).element) = 1
                         ELSE /\ HasText(locals', key)
                              /\ TextAt(locals', key) = old
                              /\ Occurrences(table', old.element) = 1
         ]_vars

====
